---- MODULE Spec2Model ----
(***************************************************************************)
(* Model of pinyin_converter_fixed.py: process_file and the converter it   *)
(* runs, add_pinyin_preserve_format_optimized.                             *)
(*                                                                         *)
(* A character is its Unicode code point, a string is a sequence of code   *)
(* points.  The characters used:                                           *)
(*      10  line feed              32  space            9  tab             *)
(*   65292  fullwidth comma     20320  U+4F60 (ni3)  22909  U+597D (hao3)  *)
(*   39295  U+997F (e4)                                                    *)
(* and, in tokens, 110 n, 464 i-caron, 104 h, 462 a-caron, 111 o,          *)
(* 232 e-grave.                                                            *)
(***************************************************************************)
EXTENDS Integers, Sequences, FiniteSets, TLC

VARIABLES pc, input_exists, input_text, output_file, chinese_text, lines, k,
          line, pinyin_line, result_lines, pinyin_text, disk, console, exc

vars == <<pc, input_exists, input_text, output_file, chinese_text, lines, k,
          line, pinyin_line, result_lines, pinyin_text, disk, console, exc>>

\* Longest input text, in characters.
MaxText == 4

\* The characters input texts are drawn from.
Alphabet == {10, 32, 9, 65292, 20320, 22909, 39295}

Texts == UNION {[1..n -> Alphabet] : n \in 0..MaxText}

None == "None"
NoFile == "NoFile"

\* File names are sequences of components, the extension last.
InputFile == <<"in", ".txt">>
ExplicitOutput == <<"out", ".txt">>

-----------------------------------------------------------------------------
(* Helpers of the converter *)

\* IsChinese with the upper end of the range forgotten.
IsChinese_NoUpper(c) == 19968 <= c

\* '\u4e00' <= char <= '\u9fff'
IsChinese(c) == 19968 <= c /\ c <= 40959

\* IsSpace as char == ' ' would test it.
IsSpace_Blank(c) == c = 32

\* str.isspace() of one character
IsSpace(c) ==
    \/ c \in {9, 10, 11, 12, 13, 28, 29, 30, 31, 32, 133, 160, 5760}
    \/ c \in 8192..8202
    \/ c \in {8232, 8233, 8239, 8287, 12288}

\* pinyin(char, style=Style.TONE, heteronym=False)[0][0]: the first reading,
\* or the character itself when the library has no reading for it.
Lookup(c) ==
    CASE c = 20320 -> <<110, 464>>
      [] c = 22909 -> <<104, 462, 111>>
      [] c = 39295 -> <<232>>
      [] OTHER -> <<c>>

\* Split as text.splitlines() would do it: no empty last line.
RECURSIVE SplitLines(_)
SplitLines(s) ==
    IF s = <<>> THEN <<>>
    ELSE IF \A p \in 1..Len(s) : s[p] # 10
    THEN <<s>>
    ELSE LET p == CHOOSE q \in 1..Len(s) :
                      s[q] = 10 /\ \A r \in 1..(q - 1) : s[r] # 10
         IN  <<SubSeq(s, 1, p - 1)>> \o SplitLines(SubSeq(s, p + 1, Len(s)))

\* text.split('\n')
RECURSIVE Split(_)
Split(s) ==
    IF \A p \in 1..Len(s) : s[p] # 10
    THEN <<s>>
    ELSE LET p == CHOOSE q \in 1..Len(s) :
                      s[q] = 10 /\ \A r \in 1..(q - 1) : s[r] # 10
         IN  <<SubSeq(s, 1, p - 1)>> \o Split(SubSeq(s, p + 1, Len(s)))

\* Join as ''.join(result_lines) would do it.
RECURSIVE Join_NoSep(_)
Join_NoSep(ls) ==
    IF ls = <<>> THEN <<>> ELSE ls[1] \o Join_NoSep(Tail(ls))

\* '\n'.join(result_lines)
RECURSIVE Join(_)
Join(ls) ==
    IF ls = <<>> THEN <<>>
    ELSE IF Len(ls) = 1 THEN ls[1]
    ELSE ls[1] \o <<10>> \o Join(Tail(ls))

\* Rstrip as s.rstrip(' ') would do it.
RECURSIVE Rstrip_Spaces(_)
Rstrip_Spaces(s) ==
    IF s # <<>> /\ s[Len(s)] = 32
    THEN Rstrip_Spaces(SubSeq(s, 1, Len(s) - 1))
    ELSE s

\* s.rstrip()
RECURSIVE Rstrip(_)
Rstrip(s) ==
    IF s # <<>> /\ IsSpace(s[Len(s)])
    THEN Rstrip(SubSeq(s, 1, Len(s) - 1))
    ELSE s

\* s.lstrip()
RECURSIVE Lstrip(_)
Lstrip(s) ==
    IF s # <<>> /\ IsSpace(s[1]) THEN Lstrip(Tail(s)) ELSE s

\* s.strip()
Strip(s) == Lstrip(Rstrip(s))

\* any('\u4e00' <= char <= '\u9fff' for char in line)
HasChinese(l) == \E i \in 1..Len(l) : IsChinese(l[i])

\* One round of the while loop: what the character adds to pinyin_line.
Piece(c) ==
    IF IsChinese(c) THEN Lookup(c) \o <<32, 32>>
    ELSE IF IsSpace(c) THEN <<c>>
    ELSE <<32>>

\* pinyin_line after the while loop has run over the whole of l.
RECURSIVE PinyinLine(_)
PinyinLine(l) ==
    IF l = <<>> THEN <<>>
    ELSE PinyinLine(SubSeq(l, 1, Len(l) - 1)) \o Piece(l[Len(l)])

\* The lines one round of the for loop appends to result_lines.
ConvertLine(l) ==
    IF Strip(l) = <<>> THEN <<l>>
    ELSE IF ~HasChinese(l) THEN <<l>>
    ELSE <<Rstrip(PinyinLine(l)), l>>

RECURSIVE ConvertLines(_)
ConvertLines(ls) ==
    IF ls = <<>> THEN <<>>
    ELSE ConvertLine(ls[1]) \o ConvertLines(Tail(ls))

\* add_pinyin_preserve_format_optimized(chinese_text), when no lookup raises
Convert(text) == Join(ConvertLines(Split(text)))

-----------------------------------------------------------------------------
(* Helpers of process_file *)

\* name, ext = os.path.splitext(input_file); f"{name}_pinyin{ext}"
OutputName(inp, out) ==
    IF out = None
    THEN SubSeq(inp, 1, Len(inp) - 1) \o <<"_pinyin", inp[Len(inp)]>>
    ELSE out

FileNames == {OutputName(InputFile, None), ExplicitOutput}

\* Report as an except clause that prints nothing.
Report_Silent(e) == <<>>

\* What the except clauses print.
Report(e) ==
    IF e = "FileNotFoundError"
    THEN <<"Error: Input file not found.">>
    ELSE <<"Error processing file">>

\* What the run prints after the write.
Success == <<"Successfully processed", "Output saved as", "Preview">>

-----------------------------------------------------------------------------
Init ==
    /\ pc = "open"
    /\ input_exists \in BOOLEAN
    /\ input_text \in (IF input_exists THEN Texts ELSE {<<>>})
    /\ output_file \in {None, ExplicitOutput}
    /\ chinese_text = <<>>
    /\ lines = <<>>
    /\ k = 1
    /\ line = <<>>
    /\ pinyin_line = <<>>
    /\ result_lines = <<>>
    /\ pinyin_text = <<>>
    /\ disk = [n \in FileNames |-> NoFile]
    /\ console = <<>>
    /\ exc = None

\* open(input_file) raises FileNotFoundError; the except clause reports it.
OpenMissing ==
    /\ pc = "open"
    /\ ~input_exists
    /\ exc' = "FileNotFoundError"
    /\ console' = console \o Report("FileNotFoundError")
    /\ pc' = "done"
    /\ UNCHANGED <<input_exists, input_text, output_file, chinese_text, lines,
                   k, line, pinyin_line, result_lines, pinyin_text, disk>>

\* f.read(), then the converter is entered and splits the text.
ReadFile ==
    /\ pc = "open"
    /\ input_exists
    /\ chinese_text' = input_text
    /\ lines' = Split(input_text)
    /\ result_lines' = <<>>
    /\ k' = 1
    /\ pc' = "loop"
    /\ UNCHANGED <<input_exists, input_text, output_file, line, pinyin_line,
                   pinyin_text, disk, console, exc>>

\* if not line.strip(): append the line, continue
LineBlank ==
    /\ pc = "loop"
    /\ k <= Len(lines)
    /\ Strip(lines[k]) = <<>>
    /\ line' = lines[k]
    /\ result_lines' = Append(result_lines, lines[k])
    /\ k' = k + 1
    /\ UNCHANGED <<pc, input_exists, input_text, output_file, chinese_text,
                   lines, pinyin_line, pinyin_text, disk, console, exc>>

\* if not has_chinese: append the line, continue
LinePlain ==
    /\ pc = "loop"
    /\ k <= Len(lines)
    /\ Strip(lines[k]) # <<>>
    /\ ~HasChinese(lines[k])
    /\ line' = lines[k]
    /\ result_lines' = Append(result_lines, lines[k])
    /\ k' = k + 1
    /\ UNCHANGED <<pc, input_exists, input_text, output_file, chinese_text,
                   lines, pinyin_line, pinyin_text, disk, console, exc>>

\* The while loop builds pinyin_line; its rstrip and the line are appended.
LineAnnotate ==
    /\ pc = "loop"
    /\ k <= Len(lines)
    /\ Strip(lines[k]) # <<>>
    /\ HasChinese(lines[k])
    /\ line' = lines[k]
    /\ pinyin_line' = PinyinLine(lines[k])
    /\ result_lines' = result_lines \o <<Rstrip(PinyinLine(lines[k])), lines[k]>>
    /\ k' = k + 1
    /\ UNCHANGED <<pc, input_exists, input_text, output_file, chinese_text,
                   lines, pinyin_text, disk, console, exc>>

\* pinyin() raises at the character in column i: the exception leaves the
\* converter and process_file's except clause reports it.
LookupRaises ==
    /\ pc = "loop"
    /\ k <= Len(lines)
    /\ Strip(lines[k]) # <<>>
    /\ \E i \in 1..Len(lines[k]) :
          /\ IsChinese(lines[k][i])
          /\ pinyin_line' = PinyinLine(SubSeq(lines[k], 1, i - 1))
    /\ line' = lines[k]
    /\ exc' = "Exception"
    /\ console' = console \o Report("Exception")
    /\ pc' = "done"
    /\ UNCHANGED <<input_exists, input_text, output_file, chinese_text, lines,
                   k, result_lines, pinyin_text, disk>>

\* The loop is over: join, name the output, write it, print.
WriteFile ==
    /\ pc = "loop"
    /\ k > Len(lines)
    /\ pinyin_text' = Join(result_lines)
    /\ disk' = [disk EXCEPT ![OutputName(InputFile, output_file)] =
                                Join(result_lines)]
    /\ console' = console \o Success
    /\ pc' = "done"
    /\ UNCHANGED <<input_exists, input_text, output_file, chinese_text, lines,
                   k, line, pinyin_line, result_lines, exc>>

Next ==
    \/ OpenMissing
    \/ ReadFile
    \/ LineBlank
    \/ LinePlain
    \/ LineAnnotate
    \/ LookupRaises
    \/ WriteFile

Spec == Init /\ [][Next]_vars
-----------------------------------------------------------------------------
(* The vocabulary of the claims *)

\* A qualifying character: a code point in U+4E00..U+9FFF.
Qualifying(c) == c \in 19968..40959

\* The whitespace characters.
Whitespace ==
    {9, 10, 11, 12, 13, 28, 29, 30, 31, 32, 133, 160, 5760}
        \cup (8192..8202) \cup {8232, 8233, 8239, 8287, 12288}

HasQualifying(l) == \E i \in 1..Len(l) : Qualifying(l[i])

\* Input line j holds a qualifying character.
QLine(j) == HasQualifying(lines[j])

\* Where input line j stands in the output: after the j - 1 lines before it
\* and one annotation line for each qualifying line up to and including it.
Pos(j) == j + Cardinality({m \in 1..j : QLine(m)})

\* s[p], or -1 outside s.
At(s, p) == IF p \in 1..Len(s) THEN s[p] ELSE -1

\* The converter has just built pinyin_line for the line in `line`.
Annotated == exc = None /\ HasQualifying(line)

\* The file the run writes.
Output == disk[OutputName(InputFile, output_file)]

Succeeded == pc = "done" /\ exc = None

-----------------------------------------------------------------------------
\* C1: a line with no qualifying character (the empty line and
\* whitespace-only lines included) makes the converter emit exactly one
\* line, the line itself, and no annotation line.
C1_PassThrough ==
    [][(pc = "loop" /\ k <= Len(lines) /\ ~QLine(k))
          => (/\ pc' = "loop"
              /\ k' = k + 1
              /\ result_lines' = Append(result_lines, lines[k]))]_vars

\* Reached: a whitespace-only line and a punctuation line have both been
\* passed through.
C1_Witness ==
    /\ pc = "loop"
    /\ k = 3
    /\ lines[1] # <<>>
    /\ \A i \in 1..Len(lines[1]) : lines[1][i] \in Whitespace
    /\ lines[2] = <<65292>>
    /\ result_lines = <<lines[1], lines[2]>>

\* C2: at every column i where the line holds a qualifying character, the
\* annotation line before trimming holds the first character of that
\* character's token.
C2_Alignment ==
    Annotated =>
        \A i \in 1..Len(line) :
            Qualifying(line[i]) => At(pinyin_line, i) = Lookup(line[i])[1]

\* C3: the annotation line before trimming is as long as the line.
C3_LengthBound == Annotated => Len(pinyin_line) = Len(line)

\* C4: the output of an N-line document has between N and 2N lines; line j
\* of the input stands unmodified at Pos(j), so the input lines keep their
\* order, each is preceded by one annotation line exactly when it holds a
\* qualifying character, and there is no other line.
C4_OrderPreserved ==
    Succeeded =>
        LET out == Split(Output)
            N == Len(lines)
        IN  /\ N <= Len(out)
            /\ Len(out) <= 2 * N
            /\ Len(out) = Pos(N)
            /\ \A j \in 1..N : At(out, Pos(j)) = lines[j]

\* Reached: a two-line document, the first line passed through and the
\* second annotated, written as three lines.
C4_Witness ==
    /\ Succeeded
    /\ Len(lines) = 2
    /\ ~QLine(1)
    /\ lines[1] # <<>>
    /\ QLine(2)
    /\ Len(Split(Output)) = 3

\* C5: a token that would run past the end of the line is cut to the
\* characters that fit, so the annotation line is no longer than the line;
\* the line U+4F60 alone gets the annotation line "n".
C5_Truncation ==
    Annotated =>
        /\ \A i \in 1..Len(line) :
              (Qualifying(line[i]) /\ (i - 1) + Len(Lookup(line[i])) > Len(line))
                  => /\ Len(pinyin_line) <= Len(line)
                     /\ \A m \in 1..(Len(line) - i + 1) :
                           (\A j \in (i + 1)..(i + m - 1) : ~Qualifying(line[j]))
                               => At(pinyin_line, i + m - 1) = Lookup(line[i])[m]
        /\ line = <<20320>> => result_lines[Len(result_lines) - 1] = <<110>>

\* C6: no emitted annotation line ends with a whitespace character.
C6_Trimmed ==
    \A j \in 1..Len(lines) :
        (j < k /\ QLine(j)) =>
            LET a == result_lines[Pos(j) - 1]
            IN  a = <<>> \/ a[Len(a)] \notin Whitespace

\* Reached: an annotation line was emitted whose untrimmed form ended with
\* a tab.
C6_Witness ==
    /\ Annotated
    /\ pc = "loop"
    /\ pinyin_line # <<>>
    /\ pinyin_line[Len(pinyin_line)] = 9
    /\ result_lines[Len(result_lines) - 1] = <<110, 464>>

\* The columns the line's characters take in the annotation line the
\* converter builds: a qualifying character takes its token and two more
\* columns, any other character one column.
RECURSIVE Width(_)
Width(l) ==
    IF l = <<>> THEN 0
    ELSE Width(SubSeq(l, 1, Len(l) - 1))
            + (IF Qualifying(l[Len(l)]) THEN Len(Lookup(l[Len(l)])) + 2 ELSE 1)

\* The first column character i of the line takes.
Off(l, i) == Width(SubSeq(l, 1, i - 1)) + 1

\* The columns that hold the characters of some token.
TokenCols(l) ==
    UNION {Off(l, i)..(Off(l, i) + Len(Lookup(l[i])) - 1) :
               i \in {j \in 1..Len(l) : Qualifying(l[j])}}

C8_NoOutputOnFailure ==
    /\ (pc = "done" /\ ~input_exists) => exc = "FileNotFoundError"
    /\ exc # None =>
          /\ pc = "done"
          /\ Len(console) = 1
          /\ console[1] \in {"Error: Input file not found.", "Error processing file"}
          /\ \A n \in FileNames : disk[n] = NoFile
          /\ pinyin_text = <<>>
    /\ exc = "Exception" =>
          /\ k <= Len(lines)
          /\ Len(result_lines) = (IF k = 1 THEN 0 ELSE Pos(k - 1))

\* Reached: a lookup raised on the second line, after the first line had
\* been annotated.
C8_Witness ==
    /\ exc = "Exception"
    /\ k = 2
    /\ Len(result_lines) = 2
    /\ console = <<"Error processing file">>

\* C9: no separator is put between tokens: of two adjacent qualifying
\* characters the earlier keeps the first character of its token at its
\* column, and the later's token starts at the very next column and runs on
\* until the line ends or a later token overwrites it.
C9_NoSeparator ==
    Annotated =>
        \A i \in 1..(Len(line) - 1) :
            (Qualifying(line[i]) /\ Qualifying(line[i + 1])) =>
                /\ At(pinyin_line, i) = Lookup(line[i])[1]
                /\ \A m \in 1..Len(Lookup(line[i + 1])) :
                      (/\ i + m <= Len(line)
                       /\ \A j \in (i + 2)..(i + m) : ~Qualifying(line[j]))
                          => At(pinyin_line, i + m) = Lookup(line[i + 1])[m]

\* C10: lines are converted independently: the output for A + "\n" + B is
\* the output for A, a line feed, and the output for B.
C10_LineIndependence ==
    Succeeded =>
        \A p \in 1..Len(chinese_text) :
            chinese_text[p] = 10 =>
                pinyin_text =
                    Convert(SubSeq(chinese_text, 1, p - 1)) \o <<10>>
                        \o Convert(SubSeq(chinese_text, p + 1, Len(chinese_text)))

\* Reached: a document was converted whose two halves both hold qualifying
\* characters.
C10_Witness ==
    /\ Succeeded
    /\ Len(lines) = 2
    /\ QLine(1)
    /\ QLine(2)
    /\ pinyin_text = Output

====
